---- MODULE Spec2Model ----
(***************************************************************************)
(* discdrive (src/script.py): a file is split into CHUNK_SIZE chunks, each *)
(* chunk is posted to a channel as the attachment "<basename>.part<N>",    *)
(* and the channel's message history is the only index.  The model covers  *)
(* upload_sync, upload_chunk / upload_async, fetch_messages, list_files,   *)
(* download_file and delete_file, with the remote channel as a message     *)
(* history that answers POST / GET / DELETE with any status.               *)
(*                                                                         *)
(* Text is a sequence of one-character strings, bytes are small naturals.  *)
(***************************************************************************)
EXTENDS Integers, Sequences, FiniteSets, TLC

VARIABLES
    cmd,            \* the command main() dispatched: "none" before the first
    prev,           \* the command dispatched before cmd
    pc,             \* position inside the running command
    budget,         \* command-line invocations still to come
    path,           \* the local file named on the command line, or NoFile
    file_name,      \* the name given to download / delete
    history,        \* the channel: messages, newest first
    nextId,         \* the id the remote gives to the next message
    part,           \* upload_sync: 1-based number of the chunk being sent
    pos,            \* upload_sync: read offset of the open file
    chunk,          \* upload_sync: the bytes of the last f.read
    tasks,          \* upload_async: the upload_chunk coroutines handed to gather
    semaphore,      \* upload_async: value of asyncio.Semaphore
    pbar,           \* tqdm bar: [total, n]
    limit,          \* fetch_messages: its limit argument
    messages,       \* fetch_messages: accumulated messages
    last_id,        \* fetch_messages: paging cursor (0 stands for None)
    listing,        \* list_files: what was printed per base name
    parts,          \* download_file: located (filename, url) pairs
    sink,           \* download_file: the local output file, or NoFile
    idx,            \* download_file / delete_file: loop position
    to_delete,      \* delete_file: located message ids
    deleted_count,  \* delete_file: successful deletes
    retry_count,    \* delete_file: retries of the current message
    reqlog,         \* requests issued by the sequential commands, with status
    out,            \* lines printed by the sequential commands
    limited,        \* number of 429 answers the remote has given so far
    earlier         \* the scan of the invocation before: limit, messages, listing

vars == << cmd, prev, pc, budget, path, file_name, history, nextId, part, pos,
           chunk, tasks, semaphore, pbar, limit, messages, last_id, listing,
           parts, sink, idx, to_delete, deleted_count, retry_count, reqlog, out,
           limited, earlier >>

(***************************************************************************)
(* Program constants                                                       *)
(***************************************************************************)
\* src/script.py:12 has 10 * 1024 * 1024; scaled down, the chunking code is
\* the same for every positive chunk size
CHUNK_SIZE == 2
MAX_CONCURRENT_UPLOADS == 3
MAX_RETRIES == 5
\* src/script.py:15 has 100; scaled down together with the page size
MAX_MESSAGES_TO_FETCH == 3
\* the literal 100 of src/script.py:102, the largest page asked for
PAGE_MAX == 3

(***************************************************************************)
(* Bounds of the model                                                     *)
(***************************************************************************)
\* a local file has at most MaxChunks chunks: one more than there are
\* permits, so that a chunk has to wait for one
MaxChunks == MAX_CONCURRENT_UPLOADS + 1
MaxRoundSize == 5       \* largest file whose every content is enumerated
MaxRateLimited == 5     \* 429 answers the remote gives within one run
MaxByte == 1            \* byte values are 0..MaxByte
MaxHistory == 3         \* messages in a channel that is not empty at the start

\* a path os.path.isfile rejects, and an output file that was never opened
NoFile == [name |-> << >>, data |-> << >>, exists |-> FALSE]

(***************************************************************************)
(* Text                                                                    *)
(***************************************************************************)
Digits == << "0", "1", "2", "3", "4", "5", "6", "7", "8", "9" >>

IsDigit(c) == \E d \in 1..10 : Digits[d] = c

DigitVal(c) == (CHOOSE d \in 1..10 : Digits[d] = c) - 1

DotPart == << ".", "p", "a", "r", "t" >>

\* str(n) for n >= 0, as the f-string of line 34 / 47 formats the part number
RECURSIVE DecStr(_)
DecStr(n) == IF n < 10 THEN << Digits[n + 1] >>
             ELSE DecStr(n \div 10) \o << Digits[(n % 10) + 1] >>

\* int(s) for a non-empty run of digits
RECURSIVE ParseInt(_)
ParseInt(s) == IF Len(s) = 0 THEN 0
               ELSE 10 * ParseInt(SubSeq(s, 1, Len(s) - 1)) + DigitVal(s[Len(s)])

PartName_same_index(base, n) == base \o DotPart \o DecStr(1)

\* f"{os.path.basename(path)}.part{part}"
PartName(base, n) == base \o DotPart \o DecStr(n)

\* Python's $ matches at the end of the string and before one final newline
RegexEnd(s) == IF Len(s) > 0 /\ s[Len(s)] = "\n" THEN Len(s) - 1 ELSE Len(s)

\* number of digits that end at position e of s
RECURSIVE DigitRun(_, _)
DigitRun(s, e) == IF e >= 1 /\ IsDigit(s[e]) THEN 1 + DigitRun(s, e - 1) ELSE 0

\* re.search(r"\.part(\d+)$", s): the start of the match, 0 when there is none
SuffixStart(s) ==
    LET e == RegexEnd(s)
        k == DigitRun(s, e)
        b == e - k - 4
    IN  IF k >= 1 /\ b >= 1 /\ SubSeq(s, b, b + 4) = DotPart THEN b ELSE 0

\* re.sub(r"\.part\d+$", "", filename)
clean_filename_part(filename) ==
    LET b == SuffixStart(filename)
    IN  IF b = 0 THEN filename
        ELSE SubSeq(filename, 1, b - 1)
             \o SubSeq(filename, RegexEnd(filename) + 1, Len(filename))

\* the sort key of line 158: int of the matched digits, 0 without a match
SortKey(filename) ==
    LET b == SuffixStart(filename)
    IN  IF b = 0 THEN 0
        ELSE ParseInt(SubSeq(filename, b + 5, RegexEnd(filename)))

(***************************************************************************)
(* Chunker: f.read(CHUNK_SIZE) until it returns b""                        *)
(***************************************************************************)
Min(a, b) == IF a < b THEN a ELSE b

ReadChunk(data, offset) == SubSeq(data, offset + 1, Min(offset + CHUNK_SIZE, Len(data)))

\* lines 28 and 82 as they would be with a plain floor division
total_parts_floor(file_size) == file_size \div CHUNK_SIZE

\* lines 28 and 82
total_parts(file_size) == (file_size + CHUNK_SIZE - 1) \div CHUNK_SIZE

\* the read loop of upload_async, lines 86-91: one coroutine per non-empty read
RECURSIVE ReadLoop(_, _, _)
ReadLoop(data, offset, n) ==
    LET c == ReadChunk(data, offset)
    IN  IF Len(c) = 0 THEN << >>
        ELSE << [part |-> n, chunk |-> c, st |-> "queued",
                 retry_count |-> 0, posts |-> 0, retry_after |-> 0] >>
             \o ReadLoop(data, offset + Len(c), n + 1)

(***************************************************************************)
(* The remote channel                                                      *)
(***************************************************************************)
Attachment(filename, bytes) ==
    [filename |-> filename, size |-> Len(bytes), data |-> bytes]

\* POST /channels/{id}/messages answered 200: one new newest message
RemotePost(h, id, filename, bytes) ==
    << [id |-> id, attachments |-> << Attachment(filename, bytes) >>] >> \o h

\* DELETE /channels/{id}/messages/{message_id} answered 204
RemoteDelete(h, id) == SelectSeq(h, LAMBDA m : m.id # id)

\* GET ...?limit=n&before=id answered 200: newest first, ids below the cursor
RemotePage(h, n, before) ==
    LET older == IF before = 0 THEN h ELSE SelectSeq(h, LAMBDA m : m.id < before)
    IN  SubSeq(older, 1, Min(n, Len(older)))

(***************************************************************************)
(* Answers of the remote                                                   *)
(***************************************************************************)
\* Bodies of a 429 answer.  Durations are in tenths of a second.
\* "json": a JSON object carrying retry_after; "nokey": a JSON object
\* without it; "notjson": a body resp.json() rejects; "empty": no body, for
\* which resp.json() returns None.  When retry_after is present it is a
\* number, as the remote's protocol has it.
Bodies == { [kind |-> "json", retry_after |-> 1],
            [kind |-> "nokey", retry_after |-> 0],
            [kind |-> "notjson", retry_after |-> 0],
            [kind |-> "empty", retry_after |-> 0] }

\* lines 59-64: 0.5 unless resp.json() and j.get succeed
UploadRetryAfter(body) == IF body.kind = "json" THEN body.retry_after ELSE 5

\* lines 199-200: resp.json() raises on a body that is not JSON, and
\* None.get raises on an empty one; neither is caught
DeleteRaises(body) == body.kind \in {"notjson", "empty"}

\* a status other than the ones the code tests for
OtherStatus == {500}

(***************************************************************************)
(* Files the command line can name                                         *)
(***************************************************************************)
Bytes == 0..MaxByte

NameA == << "a" >>

\* a file of n bytes whose bytes differ from their neighbours
PatternFile(name, n) ==
    [name |-> name, data |-> [i \in 1..n |-> i % (MaxByte + 1)], exists |-> TRUE]

LocalFiles == { PatternFile(NameA, n) : n \in 0..(MaxChunks * CHUNK_SIZE) }

\* a base name that itself ends in a part suffix
NameAPart2 == << "a", ".", "p", "a", "r", "t", "2" >>

\* every file of up to MaxRoundSize bytes, under both names
RoundFiles ==
    { [name |-> nm, data |-> d, exists |-> TRUE] :
        nm \in {NameA, NameAPart2},
        d \in UNION { [1..n -> Bytes] : n \in 0..MaxRoundSize } }

(***************************************************************************)
(* Groups of variables                                                     *)
(***************************************************************************)
syncVars == << part, pos, chunk >>
asyncVars == << tasks, semaphore >>
fetchVars == << limit, messages, last_id >>
downloadVars == << parts, sink >>
deleteVars == << to_delete, deleted_count, retry_count >>
remoteVars == << history, nextId >>
argVars == << path, file_name, earlier >>

\* what the scan of an earlier invocation asked for, received and listed
NoScan == [limit |-> 0, messages |-> << >>, listing |-> << >>, reqlog |-> << >>]

InitLocals ==
    /\ cmd = "none"
    /\ prev = "none"
    /\ pc = "idle"
    /\ part = 0
    /\ pos = 0
    /\ chunk = << >>
    /\ tasks = << >>
    /\ semaphore = 0
    /\ pbar = [total |-> 0, n |-> 0]
    /\ limit = 0
    /\ messages = << >>
    /\ last_id = 0
    /\ listing = << >>
    /\ parts = << >>
    /\ sink = NoFile
    /\ idx = 0
    /\ to_delete = << >>
    /\ deleted_count = 0
    /\ retry_count = 0
    /\ reqlog = << >>
    /\ out = << >>
    /\ limited = 0
    /\ earlier = NoScan

(***************************************************************************)
(* main(), lines 236-246: one command per invocation of the program        *)
(***************************************************************************)
\* a printed line, with the number it names
Line(text, n) == [line |-> text, n |-> n]

\* a request of a sequential command; status 0 while it is unanswered.
\* asked is the limit parameter of a page request, 0 for any other request
Request(method, target) ==
    [method |-> method, target |-> target, status |-> 0, asked |-> 0]

\* the same, logged together with its answer
Exchange(method, target, status) ==
    [method |-> method, target |-> target, status |-> status, asked |-> 0]

\* lines 102-106: a page request with its limit and before parameters
PageExchange(before, asked, status) ==
    [method |-> "GET messages", target |-> before, status |-> status,
     asked |-> asked]

Answered(log, status) == [log EXCEPT ![Len(log)].status = status]

Dispatch(c) ==
    /\ pc \in {"idle", "done", "crashed"}
    /\ budget > 0
    /\ budget' = budget - 1
    /\ cmd' = c
    /\ prev' = cmd

(***************************************************************************)
(* upload_chunk / upload_async, lines 44-93                                *)
(***************************************************************************)
Terminal == {"done", "error", "failed"}

SemAcquirable_off_by_one(value) == value >= 0

\* asyncio.Semaphore.acquire proceeds only while the value is positive
SemAcquirable(value) == value > 0

RetryAllowed_one_more(rc) == rc <= MAX_RETRIES

\* the loop condition of line 52
RetryAllowed(rc) == rc < MAX_RETRIES

GatherReady_first(ts) == \E i \in 1..Len(ts) : ts[i].st \in Terminal

\* asyncio.gather(*tasks) resumes its caller once every coroutine returned
GatherReady(ts) == \A i \in 1..Len(ts) : ts[i].st \in Terminal

\* main() -> upload_async(path) up to the await of gather, lines 75-92
Start_upload_async ==
    /\ Dispatch("upload_async")
    /\ IF ~path.exists
       THEN /\ pc' = "done"
            /\ out' = << Line("does not exist", 0) >>
            /\ UNCHANGED << tasks, semaphore, pbar >>
       ELSE /\ pc' = "gather"
            /\ tasks' = ReadLoop(path.data, 0, 1)
            /\ semaphore' = MAX_CONCURRENT_UPLOADS
            /\ pbar' = [total |-> total_parts(Len(path.data)), n |-> 0]
            /\ out' = << >>
    /\ reqlog' = << >>
    /\ limited' = 0
    /\ UNCHANGED << argVars, remoteVars, syncVars, fetchVars, listing,
                    downloadVars, idx, deleteVars >>

asyncFrame == << cmd, prev, pc, budget, argVars, syncVars, fetchVars, listing,
                 downloadVars, idx, deleteVars, reqlog, out >>

\* lines 52-54: the loop test, async with semaphore, session.post is sent.
\* Any queued chunk may take a free permit: this covers the first-come order
\* of asyncio.Semaphore as well as a chunk re-entering ahead of a waiter.
Acquire(i) ==
    /\ pc = "gather"
    /\ tasks[i].st = "queued"
    /\ SemAcquirable(semaphore)
    /\ semaphore' = semaphore - 1
    /\ tasks' = [tasks EXCEPT ![i].st = "posting", ![i].posts = @ + 1]
    /\ UNCHANGED << asyncFrame, remoteVars, pbar, limited >>

\* lines 55-57: status 200
Post200(i) ==
    /\ pc = "gather"
    /\ tasks[i].st = "posting"
    /\ history' = RemotePost(history, nextId,
                             PartName(path.name, tasks[i].part), tasks[i].chunk)
    /\ nextId' = nextId + 1
    /\ pbar' = [pbar EXCEPT !.n = @ + 1]
    /\ tasks' = [tasks EXCEPT ![i].st = "done"]
    /\ semaphore' = semaphore + 1
    /\ UNCHANGED << asyncFrame, limited >>

\* lines 58-66: status 429, up to the await of asyncio.sleep
Post429(i) ==
    /\ pc = "gather"
    /\ tasks[i].st = "posting"
    /\ limited < MaxRateLimited
    /\ limited' = limited + 1
    /\ \E body \in Bodies :
          tasks' = [tasks EXCEPT ![i].st = "sleeping",
                                 ![i].retry_after = UploadRetryAfter(body)]
    /\ UNCHANGED << asyncFrame, remoteVars, pbar, semaphore >>

\* lines 66-67, 52, 72: the sleep ends inside the semaphore, the count
\* goes up, the semaphore is left, the loop test runs again
Wake(i) ==
    /\ pc = "gather"
    /\ tasks[i].st = "sleeping"
    /\ semaphore' = semaphore + 1
    /\ tasks' = [tasks EXCEPT
                   ![i].retry_count = @ + 1,
                   ![i].retry_after = 0,
                   ![i].st = IF RetryAllowed(tasks[i].retry_count + 1)
                             THEN "queued" ELSE "failed"]
    /\ UNCHANGED << asyncFrame, remoteVars, pbar, limited >>

\* lines 68-71: any other status
PostError(i) ==
    /\ pc = "gather"
    /\ tasks[i].st = "posting"
    /\ \E status \in OtherStatus : TRUE
    /\ tasks' = [tasks EXCEPT ![i].st = "error"]
    /\ semaphore' = semaphore + 1
    /\ UNCHANGED << asyncFrame, remoteVars, pbar, limited >>

\* lines 92-93: gather returns, pbar.close(), the session is closed
GatherReturn ==
    /\ pc = "gather"
    /\ GatherReady(tasks)
    /\ pc' = "done"
    /\ UNCHANGED << cmd, prev, budget, argVars, remoteVars, syncVars, asyncVars,
                    pbar, fetchVars, listing, downloadVars, idx, deleteVars, reqlog,
                    out, limited >>

InitAsync ==
    /\ InitLocals
    /\ budget = 1
    /\ path \in LocalFiles \cup {NoFile}
    /\ file_name = << >>
    /\ history = << >>
    /\ nextId = 1

NextAsync ==
    \/ Start_upload_async
    \/ \E i \in 1..Len(tasks) : Acquire(i)
    \/ \E i \in 1..Len(tasks) : Post200(i)
    \/ \E i \in 1..Len(tasks) : Post429(i)
    \/ \E i \in 1..Len(tasks) : Wake(i)
    \/ \E i \in 1..Len(tasks) : PostError(i)
    \/ GatherReturn

SpecAsync == InitAsync /\ [][NextAsync]_vars

\* every request is answered, every sleep ends, the event loop runs what is ready
FairAsync == SpecAsync /\ WF_vars(NextAsync)

(***************************************************************************)
(* Properties of the concurrent upload                                     *)
(***************************************************************************)
TaskIds == 1..Len(tasks)

Holding == { i \in TaskIds : tasks[i].st \in {"posting", "sleeping"} }

AllTerminal == \A i \in TaskIds : tasks[i].st \in Terminal

\* C1: at no instant do more than MAX_CONCURRENT_UPLOADS chunks have a POST
\* outstanding (sent, or answered 429 and backing off inside the semaphore);
\* the permits in use and the semaphore's value always add up to the bound,
\* and every other unfinished chunk is queued.
C1_AtMostThreeInFlight ==
    cmd = "upload_async" /\ pc = "gather" =>
        /\ Cardinality(Holding) <= MAX_CONCURRENT_UPLOADS
        /\ semaphore = MAX_CONCURRENT_UPLOADS - Cardinality(Holding)
        /\ \A i \in TaskIds \ Holding : tasks[i].st \in Terminal \cup {"queued"}

C1_Witness ==
    /\ pc = "gather"
    /\ Cardinality({ i \in TaskIds : tasks[i].st = "posting" }) = MAX_CONCURRENT_UPLOADS
    /\ \E i \in TaskIds : tasks[i].st = "queued"

BreakOnError_missing == FALSE

\* the break of line 41
BreakOnError == TRUE

syncFrame == << cmd, prev, budget, argVars, asyncVars, fetchVars, listing,
                downloadVars, idx, deleteVars, limited >>

\* lines 31-36: the next f.read; the loop ends on b"", else the POST is sent
SyncRead(offset, n, log) ==
    LET c == ReadChunk(path.data, offset)
    IN  /\ chunk' = c
        /\ pos' = offset + Len(c)
        /\ part' = n
        /\ IF Len(c) = 0
           THEN pc' = "done" /\ reqlog' = log
           ELSE pc' = "sync_post" /\ reqlog' = Append(log, Request("POST messages", n))

\* main() -> upload_sync(path) up to the first requests.post, lines 21-36
Start_upload_sync ==
    /\ Dispatch("upload_sync")
    /\ IF ~path.exists
       THEN /\ pc' = "done"
            /\ out' = << Line("does not exist", 0) >>
            /\ reqlog' = << >>
            /\ UNCHANGED << syncVars, pbar >>
       ELSE /\ pbar' = [total |-> total_parts(Len(path.data)), n |-> 0]
            /\ out' = << >>
            /\ SyncRead(0, 1, << >>)
    /\ limited' = 0
    /\ UNCHANGED << argVars, remoteVars, asyncVars, fetchVars, listing,
                    downloadVars, idx, deleteVars >>

\* lines 37-38, 42, 31-36: status 200
Sync200 ==
    /\ pc = "sync_post"
    /\ history' = RemotePost(history, nextId, PartName(path.name, part), chunk)
    /\ nextId' = nextId + 1
    /\ pbar' = [pbar EXCEPT !.n = @ + 1]
    /\ SyncRead(pos, part + 1, Answered(reqlog, 200))
    /\ UNCHANGED << syncFrame, out >>

\* lines 39-41: any other status, 429 included
SyncFail ==
    /\ pc = "sync_post"
    /\ \E status \in {429} \cup OtherStatus :
          /\ out' = Append(out, Line("Error on part", part))
          /\ IF BreakOnError
             THEN /\ pc' = "done"
                  /\ reqlog' = Answered(reqlog, status)
                  /\ UNCHANGED syncVars
             ELSE SyncRead(pos, part + 1, Answered(reqlog, status))
    /\ UNCHANGED << syncFrame, remoteVars, pbar >>

InitSync ==
    /\ InitLocals
    /\ budget = 1
    /\ path \in LocalFiles \cup RoundFiles \cup {NoFile}
    /\ file_name = << >>
    /\ history = << >>
    /\ nextId = 1

NextSync ==
    \/ Start_upload_sync
    \/ Sync200
    \/ SyncFail

SpecSync == InitSync /\ [][NextSync]_vars

(***************************************************************************)
(* Properties of the serial upload                                         *)
(***************************************************************************)
\* number of requests among the first k of the log that name target t
RECURSIVE CountTarget(_, _, _)
CountTarget(log, k, t) ==
    IF k = 0 THEN 0
    ELSE CountTarget(log, k - 1, t) + (IF log[k].target = t THEN 1 ELSE 0)

\* C4 (as claimed): in serial mode a POST answered 429 is followed by one
\* more POST of the same chunk, as long as the chunk was posted fewer than
\* MAX_RETRIES times.
C4_SerialRetriesOn429 ==
    cmd = "upload_sync" /\ pc = "done" =>
        \A k \in 1..Len(reqlog) :
            (reqlog[k].status = 429 /\ CountTarget(reqlog, k, reqlog[k].target) < MAX_RETRIES)
                => /\ k < Len(reqlog)
                   /\ reqlog[k + 1].target = reqlog[k].target

\* C7: in serial mode the k-th POST carries chunk k, every POST before the
\* last was answered 200, and an answer other than 200 ends the upload with
\* no later POST.
C7_SerialOrderAndAbort ==
    cmd = "upload_sync" =>
        \A k \in 1..Len(reqlog) :
            /\ reqlog[k].method = "POST messages"
            /\ reqlog[k].target = k
            /\ k < Len(reqlog) => reqlog[k].status = 200
            /\ reqlog[k].status \notin {0, 200} => pc = "done"
            /\ reqlog[k].status = 0 => pc = "sync_post"
            /\ reqlog[k].status = 200 =>
                  \E m \in 1..Len(history) :
                      history[m].attachments[1].filename = PartName(path.name, k)

C7_Witness ==
    /\ cmd = "upload_sync"
    /\ pc = "done"
    /\ total_parts(Len(path.data)) >= 3
    /\ Len(reqlog) = 2
    /\ reqlog[1].status = 200
    /\ reqlog[2].status \notin {0, 200}

(***************************************************************************)
(* Channels the program can find                                           *)
(***************************************************************************)
NameB == << "b" >>

\* the attachment names of one message
NameChoices ==
    { << >>,
      << PartName(NameA, 1) >>, << PartName(NameA, 2) >>, << PartName(NameA, 3) >>,
      << NameA >>, << PartName(NameB, 1) >>,
      << PartName(NameA, 2), PartName(NameA, 1) >> }

\* attachment k of message id holds k bytes of value id
MessageOf(id, names) ==
    [id |-> id,
     attachments |-> [k \in 1..Len(names) |->
                        Attachment(names[k], [j \in 1..k |-> id])]]

\* newest first: ids fall from n to 1
Histories ==
    UNION { { [i \in 1..n |-> MessageOf(n + 1 - i, c[i])] : c \in [1..n -> NameChoices] } :
              n \in 0..MaxHistory }

(***************************************************************************)
(* Scans of the fetched messages                                           *)
(***************************************************************************)
\* lines 152-154: (filename, url) of the attachments of one message that
\* belong to the file; the url is the message id and the attachment's place
MsgParts(m, name) ==
    SelectSeq([k \in 1..Len(m.attachments) |->
                 [filename |-> m.attachments[k].filename,
                  url |-> [id |-> m.id, k |-> k]]],
              LAMBDA p : clean_filename_part(p.filename) = name)

RECURSIVE Located(_, _)
Located(msgs, name) ==
    IF Len(msgs) = 0 THEN << >>
    ELSE MsgParts(Head(msgs), name) \o Located(Tail(msgs), name)

\* what a GET of the url returns
UrlData(h, url) ==
    LET m == CHOOSE x \in { h[i] : i \in 1..Len(h) } : x.id = url.id
    IN  m.attachments[url.k].data

SortParts_none(ps) == ps

\* list.sort of line 158: stable, ascending in the key
RECURSIVE SortParts(_)
SortParts(ps) ==
    IF Len(ps) = 0 THEN << >>
    ELSE LET t == SortParts(SubSeq(ps, 1, Len(ps) - 1))
             p == ps[Len(ps)]
         IN  SelectSeq(t, LAMBDA q : SortKey(q.filename) <= SortKey(p.filename))
             \o << p >>
             \o SelectSeq(t, LAMBDA q : SortKey(q.filename) > SortKey(p.filename))

\* lines 177-180 as they would be without the test of line 179
ToDelete_every_message(msgs, name) == [i \in 1..Len(msgs) |-> msgs[i].id]

\* lines 177-180: the message id, once per attachment that belongs to the file
RECURSIVE ToDelete(_, _)
ToDelete(msgs, name) ==
    IF Len(msgs) = 0 THEN << >>
    ELSE [k \in 1..Len(MsgParts(Head(msgs), name)) |-> Head(msgs).id]
         \o ToDelete(Tail(msgs), name)

AddAttachment_overwrite(table, att) ==
    LET base == clean_filename_part(att.filename)
    IN  IF \E i \in 1..Len(table) : table[i].name = base
        THEN [i \in 1..Len(table) |->
                IF table[i].name = base
                THEN [table[i] EXCEPT !.count = @ + 1, !.size = att.size]
                ELSE table[i]]
        ELSE Append(table, [name |-> base, count |-> 1, size |-> att.size])

\* lines 133-136 for one attachment: files_map and files_size, in the order
\* the dict first saw each base name
AddAttachment(table, att) ==
    LET base == clean_filename_part(att.filename)
    IN  IF \E i \in 1..Len(table) : table[i].name = base
        THEN [i \in 1..Len(table) |->
                IF table[i].name = base
                THEN [table[i] EXCEPT !.count = @ + 1, !.size = @ + att.size]
                ELSE table[i]]
        ELSE Append(table, [name |-> base, count |-> 1, size |-> att.size])

RECURSIVE AddAttachments(_, _)
AddAttachments(table, atts) ==
    IF Len(atts) = 0 THEN table
    ELSE AddAttachments(AddAttachment(table, Head(atts)), Tail(atts))

\* lines 129-136
RECURSIVE FilesTable(_, _)
FilesTable(table, msgs) ==
    IF Len(msgs) = 0 THEN table
    ELSE FilesTable(AddAttachments(table, Head(msgs).attachments), Tail(msgs))

Units == << "", "K", "M", "G", "T" >>

\* round(x / d) to the nearest integer, ties to even, as "%.2f" does on a
\* float that holds num / 1024^k exactly
RoundDiv(x, d) ==
    LET q == x \div d
        r == x % d
    IN  IF 2 * r < d THEN q
        ELSE IF 2 * r > d THEN q + 1
        ELSE IF q % 2 = 0 THEN q ELSE q + 1

\* sizeof_fmt, lines 119-124: the unit and the number in hundredths
RECURSIVE SizeofLoop(_, _, _)
SizeofLoop(num, d, u) ==
    IF u > Len(Units) THEN [unit |-> "P", hundredths |-> RoundDiv(num * 100, d)]
    ELSE IF num < 1024 * d THEN [unit |-> Units[u], hundredths |-> RoundDiv(num * 100, d)]
    ELSE SizeofLoop(num, d * 1024, u + 1)

sizeof_fmt(num) == SizeofLoop(num, 1, 1)

(***************************************************************************)
(* After fetch_messages: each caller up to its next request                *)
(***************************************************************************)
\* line 117 as it would be if a scan that ends early returned nothing
Truncate_nothing(msgs, n) == << >>

\* line 117: messages[:limit]
Truncate(msgs, n) == SubSeq(msgs, 1, Min(n, Len(msgs)))

OpenedFile == [name |-> file_name, data |-> << >>, exists |-> TRUE]

\* download_file, lines 150-162: locate, sort, open the output, first GET
ScanDownload(msgs, log, o) ==
    LET found == Located(msgs, file_name)
    IN  /\ IF Len(found) = 0
           THEN /\ out' = Append(o, Line("No parts found", 0))
                /\ pc' = "done"
                /\ reqlog' = log
                /\ parts' = << >>
                /\ UNCHANGED << sink, pbar >>
           ELSE /\ out' = o
                /\ pc' = "download"
                /\ parts' = SortParts(found)
                /\ sink' = OpenedFile
                /\ pbar' = [total |-> Len(found), n |-> 0]
                /\ reqlog' = Append(log, Request("GET attachment", 1))
        /\ idx' = 1
        /\ UNCHANGED << listing, deleteVars, remoteVars >>

\* delete_file, lines 176-193: locate, first DELETE
ScanDelete(msgs, log, o) ==
    LET ids == ToDelete(msgs, file_name)
    IN  /\ to_delete' = ids
        /\ deleted_count' = 0
        /\ retry_count' = 0
        /\ idx' = 1
        /\ IF Len(ids) = 0
           THEN /\ out' = Append(o, Line("No parts found to delete", 0))
                /\ pc' = "done"
                /\ reqlog' = log
                /\ pbar' = pbar
           ELSE /\ out' = o
                /\ pc' = "delete"
                /\ pbar' = [total |-> Len(ids), n |-> 0]
                /\ reqlog' = Append(log, Request("DELETE message", ids[1]))
        /\ UNCHANGED << listing, downloadVars, remoteVars >>

\* list_files, lines 129-145
ScanList(msgs, log, o) ==
    LET table == FilesTable(<< >>, msgs)
    IN  /\ listing' = [i \in 1..Len(table) |->
                         [name |-> table[i].name, count |-> table[i].count,
                          size |-> table[i].size, text |-> sizeof_fmt(table[i].size)]]
        /\ out' = Append(o, Line(IF Len(table) = 0 THEN "No files found"
                                                   ELSE "Files found", Len(table)))
        /\ pc' = "done"
        /\ reqlog' = log
        /\ UNCHANGED << pbar, downloadVars, idx, deleteVars, remoteVars >>

\* the dispatch as it would be if every caller went on as delete_file does
AfterFetch_as_delete(msgs, log, o) == ScanDelete(msgs, log, o)

\* line 117 back in the caller: lines 129, 150 or 176
AfterFetch(msgs, log, o) ==
    CASE cmd = "download_file" -> ScanDownload(msgs, log, o)
      [] cmd = "delete_file" -> ScanDelete(msgs, log, o)
      [] cmd = "list_files" -> ScanList(msgs, log, o)

(***************************************************************************)
(* fetch_messages, lines 95-117                                            *)
(***************************************************************************)
\* the start of a command that scans the channel: lines 127-128, 148-149,
\* 174-175 and 96-99
StartScanLimit(c, lim) ==
    /\ Dispatch(c)
    /\ pc' = "fetch"
    /\ limit' = lim
    /\ messages' = << >>
    /\ last_id' = 0
    /\ reqlog' = << >>
    /\ out' = << >>
    /\ limited' = 0
    /\ listing' = << >>
    /\ earlier' = [limit |-> limit, messages |-> messages, listing |-> listing,
                   reqlog |-> reqlog]
    /\ UNCHANGED << path, remoteVars, syncVars, asyncVars, pbar, downloadVars,
                    idx, deleteVars >>

\* lines 128, 149, 175: the callers pass MAX_MESSAGES_TO_FETCH
StartScan(c) == StartScanLimit(c, MAX_MESSAGES_TO_FETCH)

Start_list_files == StartScan("list_files") /\ file_name' = file_name

Start_download_file == StartScan("download_file") /\ file_name' = file_name

Start_delete_file == StartScan("delete_file") /\ file_name' = file_name

fetchFrame == << cmd, prev, budget, argVars, syncVars, asyncVars, limit, limited >>

\* line 102 as it would be without the remaining count
BatchLimit_whole_page(lim, scanned) == PAGE_MAX

\* line 102: batch_limit
BatchLimit(lim, scanned) == Min(PAGE_MAX, lim - scanned)

\* lines 101-112: one page answered 200
FetchPage200 ==
    /\ pc = "fetch"
    /\ Len(messages) < limit
    /\ LET batch_limit == BatchLimit(limit, Len(messages))
           batch == RemotePage(history, batch_limit, last_id)
           log == Append(reqlog, PageExchange(last_id, batch_limit, 200))
       IN  IF Len(batch) = 0
           THEN /\ UNCHANGED << messages, last_id >>
                /\ AfterFetch(Truncate(messages, limit), log, out)
           ELSE /\ messages' = messages \o batch
                /\ last_id' = batch[Len(batch)].id
                /\ IF Len(messages \o batch) < limit
                   THEN /\ pc' = "fetch"
                        /\ reqlog' = log
                        /\ UNCHANGED << out, pbar, listing, downloadVars, idx,
                                        deleteVars, remoteVars >>
                   ELSE AfterFetch(Truncate(messages \o batch, limit), log, out)
    /\ UNCHANGED fetchFrame

\* line 101 false on entry, then line 117: no request at all
FetchSkip ==
    /\ pc = "fetch"
    /\ ~(Len(messages) < limit)
    /\ AfterFetch(Truncate(messages, limit), reqlog, out)
    /\ UNCHANGED << messages, last_id >>
    /\ UNCHANGED fetchFrame

\* lines 113-117: a page answered with another status
FetchPageError ==
    /\ pc = "fetch"
    /\ Len(messages) < limit
    /\ \E status \in {429} \cup OtherStatus :
          AfterFetch(Truncate(messages, limit),
                     Append(reqlog, PageExchange(last_id,
                                                 BatchLimit(limit, Len(messages)),
                                                 status)),
                     Append(out, Line("Error fetching messages", status)))
    /\ UNCHANGED << messages, last_id >>
    /\ UNCHANGED fetchFrame

(***************************************************************************)
(* download_file, lines 160-171                                            *)
(***************************************************************************)
downloadFrame == << cmd, prev, budget, argVars, syncVars, asyncVars, fetchVars,
                    listing, parts, deleteVars, remoteVars, limited >>

\* lines 163-166, then the next GET or line 171
Download200 ==
    /\ pc = "download"
    /\ sink' = [sink EXCEPT !.data = @ \o UrlData(history, parts[idx].url)]
    /\ pbar' = [pbar EXCEPT !.n = @ + 1]
    /\ idx' = idx + 1
    /\ IF idx = Len(parts)
       THEN /\ pc' = "done"
            /\ reqlog' = Answered(reqlog, 200)
            /\ out' = Append(out, Line("downloaded successfully", Len(parts)))
       ELSE /\ pc' = "download"
            /\ reqlog' = Append(Answered(reqlog, 200), Request("GET attachment", idx + 1))
            /\ out' = out
    /\ UNCHANGED downloadFrame

\* lines 167-170 as they would be with a break in place of the return
DownloadError_break ==
    /\ pc = "download"
    /\ \E status \in {429} \cup OtherStatus :
          reqlog' = Answered(reqlog, status)
    /\ out' = Append(Append(out, Line("Error downloading part", idx)),
                     Line("downloaded successfully", Len(parts)))
    /\ pc' = "done"
    /\ UNCHANGED << downloadFrame, sink, pbar, idx >>

\* lines 167-170
DownloadError ==
    /\ pc = "download"
    /\ \E status \in {429} \cup OtherStatus :
          reqlog' = Answered(reqlog, status)
    /\ out' = Append(out, Line("Error downloading part", idx))
    /\ pc' = "done"
    /\ UNCHANGED << downloadFrame, sink, pbar, idx >>

InitChannel ==
    /\ InitLocals
    /\ budget = 1
    /\ path = NoFile
    /\ file_name \in {NameA, NameB}
    /\ history \in Histories
    /\ nextId = Len(history) + 1

NextDownload ==
    \/ Start_download_file
    \/ FetchPage200
    \/ FetchPageError
    \/ Download200
    \/ DownloadError

SpecDownload == InitChannel /\ [][NextDownload]_vars

(***************************************************************************)
(* Properties of download_file                                             *)
(***************************************************************************)
\* the requests for attachments, in the order they were sent
Fetches == SelectSeq(reqlog, LAMBDA r : r.method = "GET attachment")

\* the bytes of the first k located parts, one after the other
RECURSIVE ConcatParts(_, _)
ConcatParts(ps, k) ==
    IF k = 0 THEN << >>
    ELSE ConcatParts(ps, k - 1) \o UrlData(history, ps[k].url)

PlaceIn(seq, x) == CHOOSE i \in 1..Len(seq) : seq[i] = x

\* C8: the parts are fetched and written in ascending order of the number
\* in their name (equal numbers in the order of the scan), whatever their
\* order in the history; the first fetch not answered 200 is the last
\* request, and the file then holds exactly the parts before it.
C8_DownloadInOrder ==
    (cmd = "download_file" /\ pc \in {"download", "done"}) =>
        LET found == Located(messages, file_name)
            written == Len(SelectSeq(Fetches, LAMBDA r : r.status = 200))
        IN  /\ Len(parts) = Len(found)
            /\ \A i \in 1..Len(found) : \E j \in 1..Len(parts) : parts[j] = found[i]
            /\ \A i, j \in 1..Len(parts) :
                  i < j =>
                     /\ SortKey(parts[i].filename) <= SortKey(parts[j].filename)
                     /\ SortKey(parts[i].filename) = SortKey(parts[j].filename)
                           => PlaceIn(found, parts[i]) < PlaceIn(found, parts[j])
            /\ \A k \in 1..Len(Fetches) :
                  /\ Fetches[k].target = k
                  /\ k < Len(Fetches) => Fetches[k].status = 200
                  /\ Fetches[k].status \notin {0, 200} => pc = "done"
            /\ Len(parts) > 0 =>
                  /\ sink.exists
                  /\ sink.data = ConcatParts(parts, written)

C8_Witness ==
    /\ cmd = "download_file"
    /\ pc = "done"
    /\ Len(Fetches) = 3
    /\ Fetches[3].status \notin {0, 200}
    /\ parts # Located(messages, file_name)
    /\ Len(sink.data) > 0

(***************************************************************************)
(* delete_file, lines 186-212                                              *)
(***************************************************************************)
deleteFrame == << cmd, prev, budget, argVars, syncVars, asyncVars, fetchVars,
                  listing, downloadVars, to_delete, nextId >>

\* the loop condition of line 192
DeleteRetryAllowed(rc) == rc < MAX_RETRIES

\* lines 190-193 for the next message id, or line 212 after the last
DeleteNext(log, o) ==
    /\ idx' = idx + 1
    /\ retry_count' = 0
    /\ IF idx = Len(to_delete)
       THEN /\ pc' = "done"
            /\ reqlog' = log
            /\ out' = Append(o, Line("Deleted parts", deleted_count'))
       ELSE /\ pc' = "delete"
            /\ reqlog' = Append(log, Request("DELETE message", to_delete[idx + 1]))
            /\ out' = o

\* lines 194-197: status 204, which the remote gives for a message it holds
Delete204 ==
    /\ pc = "delete"
    /\ \E i \in 1..Len(history) : history[i].id = to_delete[idx]
    /\ history' = RemoteDelete(history, to_delete[idx])
    /\ deleted_count' = deleted_count + 1
    /\ pbar' = [pbar EXCEPT !.n = @ + 1]
    /\ DeleteNext(Answered(reqlog, 204), out)
    /\ UNCHANGED << deleteFrame, limited >>

\* lines 198-202 and 208-210: status 429; the sleep, then the same message
\* again or, at the ceiling, the next one
Delete429 ==
    /\ pc = "delete"
    /\ limited < MaxRateLimited
    /\ limited' = limited + 1
    /\ \E body \in Bodies :
          IF DeleteRaises(body)
          THEN /\ pc' = "crashed"
               /\ reqlog' = Answered(reqlog, 429)
               /\ UNCHANGED << idx, retry_count, deleted_count, pbar, out >>
          ELSE IF DeleteRetryAllowed(retry_count + 1)
          THEN /\ pc' = "delete"
               /\ retry_count' = retry_count + 1
               /\ reqlog' = Append(Answered(reqlog, 429),
                                   Request("DELETE message", to_delete[idx]))
               /\ UNCHANGED << idx, deleted_count, pbar, out >>
          ELSE /\ pbar' = [pbar EXCEPT !.n = @ + 1]
               /\ deleted_count' = deleted_count
               /\ DeleteNext(Answered(reqlog, 429),
                             Append(out, Line("Failed to delete message", to_delete[idx])))
    /\ UNCHANGED << deleteFrame, history >>

\* lines 203-207: any other status
DeleteError ==
    /\ pc = "delete"
    /\ pbar' = [pbar EXCEPT !.n = @ + 1]
    /\ deleted_count' = deleted_count
    /\ \E status \in OtherStatus :
          DeleteNext(Answered(reqlog, status),
                     Append(out, Line("Error deleting message", to_delete[idx])))
    /\ UNCHANGED << deleteFrame, history, limited >>

NextDelete ==
    \/ Start_delete_file
    \/ FetchPage200
    \/ FetchPageError
    \/ Delete204
    \/ Delete429
    \/ DeleteError

SpecDelete == InitChannel /\ [][NextDelete]_vars

(***************************************************************************)
(* Properties of delete_file                                               *)
(***************************************************************************)
Deletes == SelectSeq(reqlog, LAMBDA r : r.method = "DELETE message")

\* the message ids of the DELETE requests, without the retries
RECURSIVE Attempted(_)
Attempted(log) ==
    IF Len(log) = 0 THEN << >>
    ELSE LET front == SubSeq(log, 1, Len(log) - 1)
             r == log[Len(log)]
         IN  IF Len(front) > 0 /\ front[Len(front)].status = 429
             THEN Attempted(front)
             ELSE Append(Attempted(front), r.target)

DeleteEnded == cmd = "delete_file" /\ pc \in {"done", "crashed"} /\ Len(to_delete) > 0

\* C5 (as claimed): a 429 whose body is missing, not JSON or without
\* retry_after never ends the retry loop: delete_file still works through
\* the remaining message ids and prints its count.
C5_MalformedBodyTolerated ==
    /\ pc # "crashed"
    /\ DeleteEnded => /\ idx = Len(to_delete) + 1
                      /\ out[Len(out)].line = "Deleted parts"

\* C6 (as claimed): delete_file sends a DELETE for every located message id,
\* in order, whatever the earlier answers were, and the count it prints is
\* the number of DELETEs answered 204.
C6_DeleteContinues ==
    DeleteEnded =>
        /\ Attempted(Deletes) = to_delete
        /\ Len(out) > 0
        /\ out[Len(out)] = Line("Deleted parts",
                                Len(SelectSeq(Deletes, LAMBDA r : r.status = 204)))

(***************************************************************************)
(* Upload, then download or list, with every request succeeding            *)
(***************************************************************************)
\* the channel holds nothing, or one part of another file
InitRound ==
    /\ InitLocals
    /\ budget = 2
    /\ path \in LocalFiles \cup RoundFiles
    /\ file_name = path.name
    /\ history \in { << >>, << MessageOf(1, << PartName(NameB, 1) >>) >> }
    /\ nextId = Len(history) + 1

NextRound ==
    \/ Start_upload_sync
    \/ Sync200
    \/ Start_upload_async
    \/ \E i \in 1..Len(tasks) : Acquire(i)
    \/ \E i \in 1..Len(tasks) : Post200(i)
    \/ GatherReturn
    \/ Start_download_file
    \/ Start_list_files
    \/ FetchPage200
    \/ Download200

SpecRound == InitRound /\ [][NextRound]_vars

Uploads == {"upload_sync", "upload_async"}

\* number of chunks of the file, counted on its bytes
ChunkCount(data) ==
    Cardinality({ o \in 0..Len(data) : o % CHUNK_SIZE = 0 /\ o < Len(data) })

AfterUpload(c) ==
    /\ cmd = c
    /\ pc = "done"
    /\ prev \in Uploads
    /\ path.exists

\* C9: after an upload (serial or concurrent) of a file of at least one
\* byte and at most MAX_MESSAGES_TO_FETCH chunks, every request succeeding,
\* download_file of its base name writes the bytes of the file.
C9_RoundTrip ==
    (/\ AfterUpload("download_file")
     /\ Len(path.data) >= 1
     /\ ChunkCount(path.data) <= MAX_MESSAGES_TO_FETCH) =>
        /\ sink.exists
        /\ sink.data = path.data
        /\ out[Len(out)] = Line("downloaded successfully", ChunkCount(path.data))

C9_Witness ==
    /\ AfterUpload("download_file")
    /\ prev = "upload_async"
    /\ ChunkCount(path.data) = 3
    /\ Len(path.data) = 2 * CHUNK_SIZE + 1
    /\ history[1].attachments[1].filename = PartName(path.name, 1)
    /\ sink.data = path.data

Entries(name) == SelectSeq(listing, LAMBDA e : e.name = name)

ListsWholeFile ==
    IF Len(path.data) = 0
    THEN Len(Entries(path.name)) = 0
    ELSE /\ Len(Entries(path.name)) = 1
         /\ Entries(path.name)[1].count = ChunkCount(path.data)
         /\ Entries(path.name)[1].size = Len(path.data)
         /\ Entries(path.name)[1].text =
               [unit |-> "", hundredths |-> 100 * Len(path.data)]

\* C10 (as claimed): after a fully successful upload, list_files reports
\* for the base name as many parts as there are chunks and the size of the
\* file.
C10_ListAfterUpload == AfterUpload("list_files") => ListsWholeFile

\* C10 (amended): the same for a file of at most MAX_MESSAGES_TO_FETCH chunks.
C10_ListWithinScanLimit ==
    (AfterUpload("list_files") /\ ChunkCount(path.data) <= MAX_MESSAGES_TO_FETCH)
        => ListsWholeFile

C10_Witness ==
    /\ AfterUpload("list_files")
    /\ ChunkCount(path.data) = MAX_MESSAGES_TO_FETCH
    /\ Len(history) = MAX_MESSAGES_TO_FETCH + 1
    /\ Len(listing) = 1
    /\ listing[1].count = MAX_MESSAGES_TO_FETCH

(***************************************************************************)
(* The parts a single upload leaves in the channel                         *)
(***************************************************************************)
RECURSIVE Flatten(_)
Flatten(ss) == IF Len(ss) = 0 THEN << >> ELSE Head(ss) \o Flatten(Tail(ss))

\* the attachments of the channel, newest message first
RemoteAttachments == Flatten([i \in 1..Len(history) |-> history[i].attachments])

\* the indices of the parts of the uploaded file that the channel holds
RemoteIndices ==
    LET mine == SelectSeq(RemoteAttachments,
                          LAMBDA a : clean_filename_part(a.filename) = path.name)
    IN  [i \in 1..Len(mine) |-> SortKey(mine[i].filename)]

\* C11: after one upload session (here the concurrent one, whatever the
\* answers), the indices of the parts of the file in the channel are exactly
\* 1..k for some k, each of them once.
C11_ContiguousIndices ==
    (cmd = "upload_async" /\ pc = "done") =>
        \A i \in 1..Len(RemoteIndices) :
            /\ RemoteIndices[i] \in 1..Len(RemoteIndices)
            /\ \A j \in 1..Len(RemoteIndices) :
                   RemoteIndices[i] = RemoteIndices[j] => i = j

(***************************************************************************)
(* fetch_messages under any limit: list_files run twice over one channel   *)
(***************************************************************************)
\* a channel that is scanned page by page holds at most one message more
\* than a page, so that a second page and an unscanned message exist
MaxDepth == PAGE_MAX + 1
MaxLimit == 5           \* largest limit given to fetch_messages

\* the attachment names of one message of such a channel
ScanChoices ==
    { << >>, << PartName(NameA, 1) >>, << PartName(NameB, 1) >>,
      << PartName(NameA, 2), PartName(NameA, 1) >> }

\* newest first: ids fall from n to 1
DeepHistories ==
    UNION { { [i \in 1..n |-> MessageOf(n + 1 - i, c[i])] : c \in [1..n -> ScanChoices] } :
              n \in 0..MaxDepth }

\* lines 127-128 with the limit of line 95 as an input
Start_list_limit ==
    /\ \E lim \in 0..MaxLimit : StartScanLimit("list_files", lim)
    /\ file_name' = file_name

InitFetch ==
    /\ InitLocals
    /\ budget = 2
    /\ path = NoFile
    /\ file_name = NameA
    /\ history \in DeepHistories
    /\ nextId = Len(history) + 1

NextFetch ==
    \/ Start_list_limit
    \/ FetchSkip
    \/ FetchPage200
    \/ FetchPageError

SpecFetch == InitFetch /\ [][NextFetch]_vars

\* the page requests of the scan
Pages == SelectSeq(reqlog, LAMBDA r : r.method = "GET messages")

AllPagesOk(log) == \A k \in 1..Len(log) : log[k].status = 200

IsPrefix(s, t) == Len(s) <= Len(t) /\ s = SubSeq(t, 1, Len(s))

\* what one pass of the loop of fetch_messages asks for and when it goes on
PagingStep ==
    (pc = "fetch" /\ cmd = "list_files") =>
        IF Len(reqlog') = Len(reqlog)
        THEN Len(messages) >= limit /\ pc' = "done"
        ELSE LET r == reqlog'[Len(reqlog')]
                 received == SubSeq(messages', Len(messages) + 1, Len(messages'))
             IN  /\ Len(reqlog') = Len(reqlog) + 1
                 /\ r.method = "GET messages"
                 /\ r.asked = Min(PAGE_MAX, limit - Len(messages))
                 /\ r.asked >= 1
                 /\ r.target = IF Len(messages) = 0 THEN 0
                               ELSE messages[Len(messages)].id
                 /\ IsPrefix(messages, messages')
                 /\ Len(received) <= r.asked
                 /\ (pc' = "fetch") <=>
                        /\ r.status = 200
                        /\ Len(received) > 0
                        /\ Len(messages') < limit

\* what the scan holds at any moment, and at its end
ScanBounded ==
    cmd = "list_files" =>
        /\ Len(messages) <= limit
        /\ IsPrefix(messages, history)
        /\ (pc = "done" /\ AllPagesOk(reqlog)) =>
               /\ Len(messages) = Min(limit, Len(history))
               /\ \A i \in 1..Len(listing) :
                      listing[i].count <= Len(Flatten([k \in 1..Len(messages) |->
                                                 messages[k].attachments]))

\* C12: fetch_messages pages from the newest message on, each request asking
\* for min(PAGE_MAX, limit - scanned) messages before the last one received,
\* until limit messages are scanned or a page is empty; whatever the channel
\* and the limit, the result has at most limit messages.
C12_PagingWithinLimit == []ScanBounded /\ [][PagingStep]_vars

\* a limit above one page over a channel of more than one page: three
\* requests, the second for what is left of the limit, the third empty
C12_Witness ==
    /\ cmd = "list_files"
    /\ pc = "done"
    /\ limit = PAGE_MAX + 2
    /\ Len(history) = PAGE_MAX + 1
    /\ Len(Pages) = 3
    /\ Pages[2].asked = 2
    /\ Pages[2].target = history[PAGE_MAX].id
    /\ AllPagesOk(reqlog)
    /\ Len(messages) = PAGE_MAX + 1

\* the entry of a base name in a listing, as a set of at most one record
EntryOf(table, name) == { table[i] : i \in { j \in 1..Len(table) : table[j].name = name } }

TwoScans ==
    /\ cmd = "list_files"
    /\ prev = "list_files"
    /\ pc = "done"
    /\ AllPagesOk(earlier.reqlog)
    /\ AllPagesOk(reqlog)
    /\ earlier.limit <= limit

\* C13: over one unchanged channel and with no failed page, a scan with a
\* limit L1 <= L2 holds a prefix of what the scan with L2 holds, every base
\* name listed with L1 is listed with L2 with a count and a size at least as
\* large, and a limit below the depth of the channel is no error.
C13_InventoryMonotone ==
    TwoScans =>
        /\ IsPrefix(earlier.messages, messages)
        /\ \A i \in 1..Len(earlier.listing) :
               \E e \in EntryOf(listing, earlier.listing[i].name) :
                   /\ e.count >= earlier.listing[i].count
                   /\ e.size >= earlier.listing[i].size
        /\ Len(out) = 1
        /\ out[1].line \in {"Files found", "No files found"}

\* a first scan below the depth of the channel, a second one of all of it,
\* and a base name whose count and size grow
C13_Witness ==
    /\ TwoScans
    /\ earlier.limit = 1
    /\ limit = MaxLimit
    /\ Len(history) = PAGE_MAX + 1
    /\ Len(earlier.messages) = 1
    /\ Len(messages) = PAGE_MAX + 1
    /\ Len(earlier.listing) = 1
    /\ \E e \in EntryOf(listing, earlier.listing[1].name) :
           /\ e.count > earlier.listing[1].count
           /\ e.size > earlier.listing[1].size

(***************************************************************************)
(* The three commands that scan the channel                                *)
(***************************************************************************)
InitScan ==
    /\ InitLocals
    /\ budget = 1
    /\ path = NoFile
    /\ file_name \in {NameA, NameB}
    /\ history \in DeepHistories
    /\ nextId = Len(history) + 1

NextScan ==
    \/ Start_list_files
    \/ Start_download_file
    \/ Start_delete_file
    \/ FetchPage200
    \/ FetchPageError
    \/ Download200
    \/ DownloadError
    \/ Delete204
    \/ Delete429
    \/ DeleteError

SpecScan == InitScan /\ [][NextScan]_vars

\* a step of the scan in which a page is answered with an error
PageFails ==
    /\ pc = "fetch"
    /\ Len(reqlog') > Len(reqlog)
    /\ reqlog'[Len(reqlog) + 1].method = "GET messages"
    /\ reqlog'[Len(reqlog) + 1].status # 200

\* the caller goes on with the messages msgs
ContinuesOn(msgs) ==
    /\ pc' \notin {"fetch", "crashed"}
    /\ cmd = "list_files" =>
           /\ pc' = "done"
           /\ Len(listing') = Len(FilesTable(<< >>, msgs))
           /\ \A i \in 1..Len(listing') :
                  /\ listing'[i].name = FilesTable(<< >>, msgs)[i].name
                  /\ listing'[i].count = FilesTable(<< >>, msgs)[i].count
                  /\ listing'[i].size = FilesTable(<< >>, msgs)[i].size
    /\ cmd = "download_file" =>
           /\ parts' = SortParts(Located(msgs, file_name))
           /\ pc' = IF Len(parts') = 0 THEN "done" ELSE "download"
    /\ cmd = "delete_file" =>
           /\ to_delete' = ToDelete(msgs, file_name)
           /\ pc' = IF Len(to_delete') = 0 THEN "done" ELSE "delete"

PageFailureStep ==
    PageFails =>
        /\ messages' = messages
        /\ Len(reqlog') - Len(reqlog) <= 2
        /\ \A k \in (Len(reqlog) + 2)..Len(reqlog') :
               reqlog'[k].method # "GET messages"
        /\ out'[Len(out) + 1].line = "Error fetching messages"
        /\ ContinuesOn(messages)

\* no page is requested after a failed one
NoPageAfterFailure == \A k \in 1..(Len(Pages) - 1) : Pages[k].status = 200

\* C14: a page answered with a status other than 200 ends the paging at
\* once; the messages of the earlier pages are returned unchanged as a normal
\* result and the caller (list, download, delete) goes on with them.
C14_PageFailurePartial == []NoPageAfterFailure /\ [][PageFailureStep]_vars

\* delete_file after a failed second page: the messages of the first page
\* were used and one of them is deleted
C14_Witness ==
    /\ cmd = "delete_file"
    /\ pc = "done"
    /\ Len(Pages) = 2
    /\ Pages[2].status # 200
    /\ Len(messages) = 2
    /\ Len(to_delete) >= 1
    /\ deleted_count >= 1

(***************************************************************************)
(* The chunks of an upload                                                 *)
(***************************************************************************)
\* the least k with k * c >= s
CeilDiv(s, c) == CHOOSE k \in 0..s : k * c >= s /\ (k = 0 \/ (k - 1) * c < s)

\* bytes (i-1)*CHUNK_SIZE+1 .. i*CHUNK_SIZE of the file, as far as it goes
ChunkAt(i) ==
    SubSeq(path.data, (i - 1) * CHUNK_SIZE + 1, Min(i * CHUNK_SIZE, Len(path.data)))

WellCut(i, c) ==
    LET n == CeilDiv(Len(path.data), CHUNK_SIZE)
    IN  /\ i \in 1..n
        /\ c = ChunkAt(i)
        /\ Len(c) >= 1
        /\ i < n => Len(c) = CHUNK_SIZE

\* C15: a file of S bytes is read as ceil(S / CHUNK_SIZE) chunks numbered
\* from 1 in order, each of CHUNK_SIZE bytes but the last, which is not
\* empty, and their number is total_parts = (S + CHUNK_SIZE - 1) div
\* CHUNK_SIZE; both upload modes.
C15_ChunkingLaw ==
    LET n == CeilDiv(Len(path.data), CHUNK_SIZE)
    IN  /\ (cmd = "upload_async" /\ pc = "gather") =>
               /\ Len(tasks) = n
               /\ pbar.total = n
               /\ \A i \in 1..Len(tasks) :
                      tasks[i].part = i /\ WellCut(i, tasks[i].chunk)
        /\ (cmd = "upload_sync" /\ pc = "sync_post") =>
               /\ pbar.total = n
               /\ WellCut(part, chunk)
               /\ Len(reqlog) = part
               /\ reqlog[part].target = part
        /\ (cmd = "upload_sync" /\ pc = "done") =>
               /\ pbar.total = n
               /\ Len(reqlog) = n
               /\ \A k \in 1..n : reqlog[k].target = k
               /\ part = n + 1
               /\ Len(chunk) = 0
               /\ pos = Len(path.data)

\* a file of exactly two chunks sent serially: the last chunk is full and
\* no third one is read
C15_Witness ==
    /\ cmd = "upload_sync"
    /\ pc = "done"
    /\ Len(path.data) = 2 * CHUNK_SIZE
    /\ Len(reqlog) = 2
    /\ pbar = [total |-> 2, n |-> 2]
    /\ history[1].attachments[1].size = CHUNK_SIZE
    /\ history[2].attachments[1].size = CHUNK_SIZE

(***************************************************************************)
(* clean_filename_part on the names an attachment can carry                *)
(***************************************************************************)
MaxPieces == 4          \* pieces an attachment name is put together from

Pieces == { << "a" >>, DotPart, << "1" >>, << "0" >>, << "\n" >>,
            PartName(<< >>, 2) }

TestNames ==
    UNION { { Flatten(p) : p \in [1..n -> Pieces] } : n \in 0..MaxPieces }

\* a channel of one message with one attachment of that name
InitClean ==
    /\ InitLocals
    /\ budget = 1
    /\ path = NoFile
    /\ file_name = NameA
    /\ \E nm \in TestNames : history = << MessageOf(1, << nm >>) >>
    /\ nextId = 2

NextClean ==
    \/ Start_list_files
    \/ FetchPage200

SpecClean == InitClean /\ [][NextClean]_vars

\* the places where s ends in ".part" and one digit or more
SuffixPlaces(s) ==
    { b \in 1..(Len(s) - 5) :
        /\ SubSeq(s, b, b + 4) = DotPart
        /\ \A i \in (b + 5)..Len(s) : IsDigit(s[i]) }

\* s without its trailing ".part<digits>", or s when it has none
Stripped(s) ==
    IF SuffixPlaces(s) = {} THEN s
    ELSE SubSeq(s, 1, (CHOOSE b \in SuffixPlaces(s) : TRUE) - 1)

\* C16: clean_filename_part takes off exactly one trailing ".part<digits>"
\* (the index being those digits) and leaves a name without such a suffix
\* as it is; seen on the base name list_files prints for an attachment.
C16_StripExactlyOneSuffix ==
    (cmd = "list_files" /\ pc = "done" /\ Len(messages) = 1) =>
        LET nm == messages[1].attachments[1].filename
        IN  /\ Len(listing) = 1
            /\ listing[1].name = Stripped(nm)
            /\ \A b \in SuffixPlaces(nm) :
                   SortKey(nm) = ParseInt(SubSeq(nm, b + 5, Len(nm)))

(***************************************************************************)
(* The retries of delete_file                                              *)
(***************************************************************************)
\* the DELETE requests sent for message id
DeletesOf(id) == SelectSeq(Deletes, LAMBDA r : r.target = id)

\* DELETE k is the MAX_RETRIES-th of a run of 429 answers for one message
CeilingAt(k) ==
    /\ k >= MAX_RETRIES
    /\ \A j \in (k - MAX_RETRIES + 1)..k :
           Deletes[j].status = 429 /\ Deletes[j].target = Deletes[k].target

GaveUpOn(id) == \E i \in 1..Len(out) : out[i] = Line("Failed to delete message", id)

\* C17: delete_file sends at most MAX_RETRIES DELETEs for a located message
\* id and sends one again only after a 429; after MAX_RETRIES answers of 429
\* in a row it reports the message as failed, does not count it, and goes on
\* to the next id with a fresh retry counter.
C17_DeleteRetryCeiling ==
    cmd = "delete_file" =>
        /\ \A k \in 1..Len(Deletes) :
               /\ Len(DeletesOf(Deletes[k].target)) <= MAX_RETRIES
               /\ (k < Len(Deletes) /\ Deletes[k + 1].target = Deletes[k].target)
                      => Deletes[k].status = 429
               /\ CeilingAt(k) =>
                      /\ pc # "crashed"
                      /\ GaveUpOn(Deletes[k].target)
                      /\ k < Len(Deletes) \/ pc = "done"
        /\ pc = "delete" => retry_count < MAX_RETRIES
        /\ deleted_count = Len(SelectSeq(Deletes, LAMBDA r : r.status = 204))

(***************************************************************************)
(* What delete_file, list_files and download_file do to the channel        *)
(***************************************************************************)
\* message m carries an attachment whose base name is the one asked for
Carries(m) ==
    \E k \in 1..Len(m.attachments) :
        clean_filename_part(m.attachments[k].filename) = file_name

Scanned(m) == \E i \in 1..Len(messages) : messages[i] = m

\* the DELETE requests name scanned messages that carry a part of the file
DeletesOnlyLocated ==
    cmd = "delete_file" =>
        LET located == { messages[i].id :
                           i \in { j \in 1..Len(messages) : Carries(messages[j]) } }
        IN  \A k \in 1..Len(reqlog) :
                reqlog[k].method = "DELETE message" => reqlog[k].target \in located

\* a step of delete_file keeps every message that carries no part of the
\* file or was not scanned, in its place among the others
KeepsOthers ==
    (cmd' = "delete_file" /\ history' # history) =>
        /\ \A i \in 1..Len(history) :
               (~Carries(history[i]) \/ (pc # "fetch" /\ ~Scanned(history[i])))
                   => \E j \in 1..Len(history') : history'[j] = history[i]
        /\ \A j \in 1..Len(history') :
               \E i \in 1..Len(history) : history[i] = history'[j]

\* C18: delete_file(name) sends a DELETE only for messages with at least
\* one attachment whose stripped base name is name; every other message of
\* the channel, scanned or not, stays as it is.
C18_DeleteOnlyMatching == []DeletesOnlyLocated /\ [][KeepsOthers]_vars

\* a channel of four messages after delete_file: a part was deleted, a
\* scanned message of another file and the unscanned oldest message remain
C18_Witness ==
    /\ cmd = "delete_file"
    /\ pc = "done"
    /\ nextId = MAX_MESSAGES_TO_FETCH + 2
    /\ deleted_count >= 1
    /\ \E i \in 1..Len(history) : Scanned(history[i]) /\ ~Carries(history[i])
                                    /\ Len(history[i].attachments) > 0
    /\ \E i \in 1..Len(history) : history[i].id = 1 /\ Carries(history[i])

ReadOnlyCommands == {"list_files", "download_file"}

OnlyGets ==
    cmd \in ReadOnlyCommands =>
        \A k \in 1..Len(reqlog) :
            reqlog[k].method \in {"GET messages", "GET attachment"}

ChannelUntouched ==
    cmd' \in ReadOnlyCommands => (history' = history /\ nextId' = nextId)

\* C19: list_files and download_file send only GET requests, and the
\* channel is after them what it was before.
C19_ReadOnlyScans == []OnlyGets /\ [][ChannelUntouched]_vars

\* download_file ended after a page of messages and two attachments fetched
C19_Witness ==
    /\ cmd = "download_file"
    /\ pc = "done"
    /\ Len(Pages) >= 1
    /\ Len(Fetches) = 2
    /\ Fetches[2].status = 200
    /\ Len(history) = nextId - 1
    /\ Len(history) = MaxDepth

(***************************************************************************)
(* download_file run twice over one channel                                *)
(***************************************************************************)
InitRepeat ==
    /\ InitLocals
    /\ budget = 2
    /\ path = NoFile
    /\ file_name \in {NameA, NameB}
    /\ history \in Histories
    /\ nextId = Len(history) + 1

SpecRepeat == InitRepeat /\ [][NextDownload]_vars

Succeeded == \E i \in 1..Len(out) : out[i].line = "downloaded successfully"

\* the parts this run located
LocatedNow == Located(messages, file_name)

AllFetched ==
    /\ Len(LocatedNow) >= 1
    /\ Len(Fetches) = Len(LocatedNow)
    /\ \A k \in 1..Len(Fetches) : Fetches[k].status = 200
    /\ sink.exists
    /\ sink.name = file_name
    /\ sink.data = ConcatParts(parts, Len(parts))

SuccessIffAllFetched ==
    cmd = "download_file" =>
        /\ Succeeded => pc = "done"
        /\ pc = "done" => (Succeeded <=> AllFetched)
        /\ (\E k \in 1..Len(Fetches) : Fetches[k].status \notin {0, 200})
               => ~Succeeded
        /\ (pc = "done" /\ Len(LocatedNow) = 0) => Len(Fetches) = 0

\* a run that locates no part leaves the local file as it was
NoPartNoFile ==
    (cmd' = "download_file" /\ pc' = "done" /\ Len(Located(messages', file_name)) = 0)
        => sink' = sink

\* C20: download_file prints "downloaded successfully" exactly when at least
\* one part was located and every located part was fetched with 200 and
\* written; after any failed fetch it never prints it; and when no part is
\* located it neither creates nor truncates the local file.
C20_SuccessReport == []SuccessIffAllFetched /\ [][NoPartNoFile]_vars

\* a first run fetched two parts and reported success; the second run got
\* no page, located nothing, and the file of the first run is still whole
C20_Witness ==
    /\ cmd = "download_file"
    /\ prev = "download_file"
    /\ pc = "done"
    /\ Len(LocatedNow) = 0
    /\ out = << Line("Error fetching messages", 500), Line("No parts found", 0) >>
    /\ Len(Located(earlier.messages, file_name)) = 2
    /\ sink.exists
    /\ sink.data = ConcatParts(SortParts(Located(earlier.messages, file_name)), 2)
    /\ Len(sink.data) >= 2

====
